---- MODULE Spec2Model ----
(***************************************************************************)
(* Executive-order collector (backend/fetch_orders.py) and API server      *)
(* (backend/main.py), which communicate only through the JSON file         *)
(* orders.json.                                                            *)
(*                                                                         *)
(* Python values are modelled as follows.  A JSON scalar is a string; the  *)
(* two reserved strings None and Absent stand for Python None / JSON null  *)
(* and for a key that is missing from a JSON object.  A JSON object with a *)
(* fixed set of possible keys is a record whose missing keys hold Absent,  *)
(* so the empty object {} is the record with every key Absent.             *)
(*                                                                         *)
(* Granularity: one open()+json.load() and one open()+json.dump() are one  *)
(* step each; every remote request is one step.  The collector writes      *)
(* ../frontend/public/orders.json and the server reads ./orders.json; the  *)
(* model takes both paths to name the same file (the deployment the        *)
(* repository is written for).                                             *)
(***************************************************************************)
EXTENDS Integers, Sequences, FiniteSets, TLC

VARIABLES
    remote,     \* what the Federal Register API answers (pages, details)
    file,       \* orders.json: [exists, orders]
    cpc,        \* collector: position in save_orders
    page,       \* fetch_all_orders: page
    orders,     \* fetch_all_orders / save_orders: orders
    requested,  \* history: the page numbers requested by the current run
    idx,        \* save_orders: position of the for loop in orders
    detailed_orders, \* save_orders: detailed_orders
    run,        \* number of collector invocations so far (clock of saved_at)
    req,        \* server: per request, the local state of summarize_order
    version,    \* history: number of writes of the file so far
    prev_file   \* history: the file as it was before the collector's last write

vars == <<remote, file, cpc, page, orders, requested, idx, detailed_orders,
          run, req, version, prev_file>>

collectorVars == <<cpc, page, orders, requested, idx, detailed_orders, run>>

-----------------------------------------------------------------------------
(* Bounds *)

MaxPages == 3

MaxPerPage == 1

MaxRuns == 2

-----------------------------------------------------------------------------
(* Python values *)

None == "<None>"

Absent == "<absent>"

\* bool(v) for a JSON scalar
Truthy(v) == v \notin {None, ""}

\* d.get(key) where v is the model's value of d[key]
Get(v) == IF v = Absent THEN None ELSE v

\* d.get(key, default)
GetDefault(v, default) == IF v = Absent THEN default ELSE v

\* Python's  a or b
PyOr(a, b) == IF Truthy(a) THEN a ELSE b

EmptyObj == [full_text_xml |-> Absent, body_html |-> Absent]

DocNums == {"A", "B"}

AbstractVals == {Absent, None, "", "abstract"}

-----------------------------------------------------------------------------
(* The remote API: responses of session.get *)

\* requests raises (ConnectionError, Timeout): there is no response
NetErr == [error |-> TRUE, status |-> 0, json |-> FALSE, has_results |-> FALSE,
           results |-> <<>>]

ListingResp(status, json, has_results, results) ==
    [error |-> FALSE, status |-> status, json |-> json,
     has_results |-> has_results, results |-> results]

OkPage(results) == ListingResp(200, TRUE, TRUE, results)

DetailErr == [error |-> TRUE, status |-> 0, json |-> FALSE, body |-> EmptyObj]

DetailResp(status, json, body) ==
    [error |-> FALSE, status |-> status, json |-> json, body |-> body]

\* The listing page the remote answers to  page=p : past the pages of the
\* world the listing is over (200, no results).
ListingPage(p) ==
    IF p <= Len(remote.pages) THEN remote.pages[p] ELSE OkPage(<<>>)

DetailOf(document_number) == remote.details[document_number]

-----------------------------------------------------------------------------
(* fetch_orders.py *)

\* PageOutcome with a failed request ending the loop like a stopping page
PageOutcomeSwallow(response) ==
    IF response.error THEN "break"
    ELSE IF response.status # 200 THEN "break"
    ELSE IF ~response.json THEN "break"
    ELSE IF ~response.has_results \/ response.results = <<>> THEN "break"
    ELSE "extend"

\* fetch_all_orders, line 35-37: what one iteration of the loop does with
\* the response.  response.json() is evaluated only when the status is 200.
PageOutcome(response) ==
    IF response.error THEN "raise"
    ELSE IF response.status # 200 THEN "break"
    ELSE IF ~response.json THEN "raise"
    ELSE IF ~response.has_results \/ response.results = <<>> THEN "break"
    ELSE "extend"

\* Extend with the page put in front of the pages fetched so far
ExtendFront(os, results) == results \o os

\* orders.extend(response.json()["results"])
Extend(os, results) == os \o results

\* fetch_details, line 43-44
FetchDetailsOutcome(response) ==
    IF response.error THEN "raise"
    ELSE IF response.status = 200 /\ ~response.json THEN "raise"
    ELSE "return"

FetchDetailsValue(response) ==
    IF response.status = 200 THEN response.body ELSE EmptyObj

\* save_orders, line 54
RawText(details, order) ==
    PyOr(PyOr(Get(details.full_text_xml), Get(details.body_html)),
         GetDefault(order.abstract, ""))

\* save_orders, line 56-65
BuildRecord(order, details, now) ==
    [data |-> order,
     content |-> details,
     raw_text |-> RawText(details, order),
     summary |-> None,
     metadata |-> [saved_at |-> now, summarized |-> FALSE]]

\* SavedFile with the new records added to the records of the file
MergedFile == [exists |-> TRUE, orders |-> file.orders \o detailed_orders]

\* save_orders, line 68-69: the content of the file after the dump
SavedFile == [exists |-> TRUE, orders |-> detailed_orders]

\* __main__ starts save_orders (one invocation of the script)
StartRun ==
    /\ cpc \in {"idle", "done", "crashed_listing", "crashed_details"}
    /\ run < MaxRuns
    /\ run' = run + 1
    /\ cpc' = "listing"
    /\ page' = 1
    /\ orders' = <<>>
    /\ requested' = <<>>
    /\ idx' = 1
    /\ detailed_orders' = <<>>
    /\ UNCHANGED <<remote, file, req, version, prev_file>>

\* one iteration of the while loop of fetch_all_orders
FetchPage ==
    /\ cpc = "listing"
    /\ LET response == ListingPage(page)
           outcome == PageOutcome(response)
       IN /\ requested' = Append(requested, page)
          /\ CASE outcome = "raise" ->
                    /\ cpc' = "crashed_listing"
                    /\ UNCHANGED <<orders, page>>
               [] outcome = "break" ->
                    /\ cpc' = "details"
                    /\ UNCHANGED <<orders, page>>
               [] outcome = "extend" ->
                    /\ orders' = Extend(orders, response.results)
                    /\ page' = page + 1
                    /\ cpc' = "listing"
    /\ UNCHANGED <<remote, file, idx, detailed_orders, run, req, version, prev_file>>

\* one iteration of the for loop of save_orders
FetchDetails ==
    /\ cpc = "details"
    /\ idx <= Len(orders)
    /\ LET order == orders[idx]
           response == DetailOf(order.document_number)
       IN IF FetchDetailsOutcome(response) = "raise"
          THEN /\ cpc' = "crashed_details"
               /\ UNCHANGED <<idx, detailed_orders>>
          ELSE /\ detailed_orders' =
                     Append(detailed_orders,
                            BuildRecord(order, FetchDetailsValue(response), run))
               /\ idx' = idx + 1
               /\ cpc' = "details"
    /\ UNCHANGED <<remote, file, page, orders, requested, run, req, version, prev_file>>

\* the with-block at the end of save_orders
WriteFile ==
    /\ cpc = "details"
    /\ idx > Len(orders)
    /\ file' = SavedFile
    /\ version' = version + 1
    /\ prev_file' = file
    /\ cpc' = "done"
    /\ UNCHANGED <<remote, page, orders, requested, idx, detailed_orders, run, req>>

NextCollector == StartRun \/ FetchPage \/ FetchDetails \/ WriteFile

-----------------------------------------------------------------------------
(* Worlds of the remote API *)

PagingItems == [document_number : DocNums, abstract : {"abstract"}]

RECURSIVE SeqsUpTo(_, _)
SeqsUpTo(S, n) ==
    IF n = 0 THEN {<<>>}
    ELSE LET shorter == SeqsUpTo(S, n - 1)
         IN shorter \cup {Append(s, x) : s \in {t \in shorter : Len(t) = n - 1}, x \in S}

PagingResponses ==
    {NetErr,
     ListingResp(500, FALSE, FALSE, <<>>),
     ListingResp(500, TRUE, TRUE, <<[document_number |-> "A", abstract |-> "abstract"]>>),
     ListingResp(200, FALSE, FALSE, <<>>),
     ListingResp(200, TRUE, FALSE, <<>>)}
    \cup {OkPage(r) : r \in SeqsUpTo(PagingItems, MaxPerPage)}

Http404 == DetailResp(404, TRUE, EmptyObj)

PlainDetails ==
    [d \in DocNums |->
        IF d = "A"
        THEN DetailResp(200, TRUE, [full_text_xml |-> "xml", body_html |-> "html"])
        ELSE Http404]

PagingWorlds ==
    {[pages |-> p, details |-> PlainDetails] : p \in SeqsUpTo(PagingResponses, MaxPages)}

TextVals == {Absent, None, ""}

DetailResponses ==
    {DetailErr, Http404, DetailResp(200, FALSE, EmptyObj)}
    \cup {DetailResp(200, TRUE, [full_text_xml |-> f, body_html |-> b]) :
            f \in TextVals \cup {"xml"}, b \in TextVals \cup {"html"}}

TextWorlds ==
    {[pages |-> <<OkPage(<<[document_number |-> "A", abstract |-> a]>>)>>,
      details |-> [d \in DocNums |-> IF d = "A" THEN r ELSE Http404]] :
        a \in AbstractVals, r \in DetailResponses}

\* a file left by an earlier run and summarize requests
OldRecord(d, s) ==
    [data |-> [document_number |-> d, abstract |-> "abstract"],
     content |-> EmptyObj,
     raw_text |-> "abstract",
     summary |-> s,
     metadata |-> [saved_at |-> 0, summarized |-> s # None]]

NoFile == [exists |-> FALSE, orders |-> <<>>]

PrevFiles ==
    {NoFile,
     [exists |-> TRUE, orders |-> <<>>],
     [exists |-> TRUE, orders |-> <<OldRecord("A", "old summary"), OldRecord("C", None)>>]}

-----------------------------------------------------------------------------
(* main.py: POST /summarize/{document_number} *)

Requests == {"r1", "r2"}

\* server processes (uvicorn workers): summarize_order is an async function
\* without an await, so one process runs one handler at a time
Workers == {"w1", "w2"}

DocParams == DocNums \cup {"XYZ"}

NoResp == [status |-> 0, detail |-> <<>>, body |-> <<>>]

IdleReq ==
    [pc |-> "idle", worker |-> "w1", doc |-> "XYZ", found_file |-> FALSE,
     orders |-> <<>>, pos |-> 0,
     called |-> FALSE, resp |-> NoResp, readVersion |-> 0, writeVersion |-> 0]

\* In req[r], orders is the list as json.load returned it at line 37 (the
\* update of line 78-79 is kept in the response), pos the position of the
\* order line 40 found, called whether the summarization service was called.

\* JSONResponse(content=order)
OkResponse(order) == [status |-> 200, detail |-> <<>>, body |-> <<order>>]

\* what FastAPI answers when HTTPException(status, detail) leaves the handler
ErrorResponse(status, detail) == [status |-> status, detail |-> detail, body |-> <<>>]

\* str(HTTPException(status, detail))
StrHTTPException(status, detail) == <<ToString(status), ": ">> \o detail

\* line 90-91: raised outside any HTTPException, FileNotFoundError has its
\* own clause
FileNotFound == ErrorResponse(404, <<"Orders file not found">>)

\* raise HTTPException(status, detail) at a place inside the outer try of
\* summarize_order (line 34): HTTPException is an Exception and
\* FileNotFoundError is not among its bases, so the clause of line 92 catches
\* it and raises the 500 that leaves the handler
RaiseInTry(status, detail) ==
    ErrorResponse(500, <<"Internal server error: ">> \o StrHTTPException(status, detail))

\* line 40: position of the first order with the document number, 0 if none
FirstMatch(os, document_number) ==
    LET hits == {i \in 1..Len(os) : os[i].data.document_number = document_number}
    IN IF hits = {} THEN 0 ELSE CHOOSE i \in hits : \A j \in hits : i <= j

\* line 46: if order.get("summary")
HasSummary(order) == Truthy(Get(order.summary))

\* line 50-51: if not raw_text
HasRawText(order) == Truthy(Get(order.raw_text))

\* line 78-79
UpdatedOrder(order, summary) ==
    [order EXCEPT !.summary = summary, !.metadata.summarized = TRUE]

\* WrittenOrders with the update applied to the file as it is at the write
MergedOrders(r, summary) ==
    [file.orders EXCEPT ![req[r].pos] = UpdatedOrder(@, summary)]

\* line 82-83: the orders dumped to the file: the list read at line 37, with
\* the order found at line 40 updated in place
WrittenOrders(r, summary) ==
    [req[r].orders EXCEPT ![req[r].pos] = UpdatedOrder(@, summary)]

Busy(w) == \E q \in Requests : req[q].pc = "calling" /\ req[q].worker = w

\* line 33-52: the handler up to the call of the summarization service
Read(r) ==
    /\ req[r].pc = "idle"
    /\ \E document_number \in DocParams, w \in Workers :
        /\ ~Busy(w)
        /\ LET os == file.orders
               i == FirstMatch(os, document_number)
               base == [req[r] EXCEPT !.worker = w, !.doc = document_number,
                                      !.readVersion = version]
               opened == [base EXCEPT !.found_file = TRUE, !.orders = os, !.pos = i]
               done(state, resp) == [state EXCEPT !.pc = "done", !.resp = resp]
           IN req' = [req EXCEPT ![r] =
                IF ~file.exists THEN done(base, FileNotFound)
                ELSE IF i = 0
                    THEN done(opened, RaiseInTry(404, <<"Order not found">>))
                ELSE IF HasSummary(os[i])
                    THEN done(opened, OkResponse(os[i]))
                ELSE IF ~HasRawText(os[i])
                    THEN done(opened,
                              RaiseInTry(400, <<"No raw text available for summarization">>))
                ELSE [opened EXCEPT !.pc = "calling"]]
    /\ UNCHANGED <<remote, file, version, prev_file, collectorVars>>

\* what message.content of the completion can be
Contents == {"summary text", "", None}

\* line 55-88: the call of the service, and what follows it
Complete(r) ==
    /\ req[r].pc = "calling"
    /\ \/ \* the service call raises: line 87-88, then line 92-93
          /\ req' = [req EXCEPT ![r] =
                [@ EXCEPT !.pc = "done", !.called = TRUE,
                          !.resp = RaiseInTry(500, <<"Error generating summary: ", "e">>)]]
          /\ UNCHANGED <<file, version>>
       \/ \E summary \in Contents :
            LET written == WrittenOrders(r, summary)
            IN /\ file' = [exists |-> TRUE, orders |-> written]
               /\ version' = version + 1
               /\ req' = [req EXCEPT ![r] =
                     [@ EXCEPT !.pc = "done", !.called = TRUE,
                               !.writeVersion = version + 1,
                               !.resp = OkResponse(written[req[r].pos])]]
    /\ UNCHANGED <<remote, prev_file, collectorVars>>

ServerItems == [document_number : DocNums, abstract : {None, "", "abstract"}]

ServerWorlds ==
    {[pages |-> <<OkPage(<<a, b>>)>>, details |-> [d \in DocNums |-> Http404]] :
        a \in ServerItems, b \in ServerItems}

Init ==
    /\ remote \in ServerWorlds
    /\ file = NoFile
    /\ cpc = "idle"
    /\ page = 1
    /\ orders = <<>>
    /\ requested = <<>>
    /\ idx = 1
    /\ detailed_orders = <<>>
    /\ run = 0
    /\ req = [r \in Requests |-> IdleReq]
    /\ version = 0
    /\ prev_file = file

Next ==
    \/ NextCollector
    \/ \E r \in Requests : Read(r)
    \/ \E r \in Requests : Complete(r)

Spec == Init /\ [][Next]_vars

InitCollector ==
    /\ remote \in PagingWorlds \cup TextWorlds
    /\ file \in PrevFiles
    /\ cpc = "idle"
    /\ page = 1
    /\ orders = <<>>
    /\ requested = <<>>
    /\ idx = 1
    /\ detailed_orders = <<>>
    /\ run = 0
    /\ req = [r \in Requests |-> IdleReq]
    /\ version = 0
    /\ prev_file = file

SpecCollector == InitCollector /\ [][NextCollector]_vars

-----------------------------------------------------------------------------
(* Properties of the collector, checked under SpecCollector *)

\* fetch_all_orders has returned (save_orders is past line 48)
Returned == cpc \in {"details", "done", "crashed_details"}

\* the page the claims call a stopping page: status not 200, or no results
StopPage(p) ==
    \/ ListingPage(p).status # 200
    \/ ~ListingPage(p).has_results
    \/ ListingPage(p).results = <<>>

\* a request that gave no listing response: the request failed, or the body
\* of a 200 answer is not JSON
FailedRequest(p) ==
    \/ ListingPage(p).error
    \/ ListingPage(p).status = 200 /\ ~ListingPage(p).json

RECURSIVE ConcatPages(_)
ConcatPages(k) ==
    IF k = 0 THEN <<>> ELSE ConcatPages(k - 1) \o ListingPage(k).results

LastRequested == requested[Len(requested)]

\* the current run's last listing request failed
ListingFailed == requested # <<>> /\ FailedRequest(LastRequested)

\* C6: the pages are requested in the order 1, 2, 3, ...; when
\* fetch_all_orders returns, the last page requested is the first stopping
\* page, and the value returned is the concatenation, in page order, of the
\* results of the pages before it; on listing responses (no failed request)
\* the loop always ends by returning.
C6_Pagination ==
    /\ requested = [i \in 1..Len(requested) |-> i]
    /\ Returned =>
        /\ requested # <<>>
        /\ StopPage(LastRequested)
        /\ \A p \in 1..(LastRequested - 1) : ~StopPage(p)
        /\ orders = ConcatPages(LastRequested - 1)
    /\ cpc = "crashed_listing" => ListingFailed

\* two non-empty pages with different items were concatenated, and the loop
\* stopped at a page of status 500 whose body does hold results
C6_Witness ==
    /\ cpc = "done"
    /\ Len(requested) = 3
    /\ Len(orders) = 2
    /\ orders[1] # orders[2]
    /\ ListingPage(3).status = 500
    /\ ListingPage(3).results # <<>>

\* C7 as stated: a failed listing request ends the loop without an
\* exception: fetch_all_orders returns the results of the pages before it
C7_ErrorsSwallowed ==
    ListingFailed =>
        /\ Returned
        /\ orders = ConcatPages(LastRequested - 1)

\* C7 amended: a failed listing request raises out of fetch_all_orders and
\* save_orders: nothing is returned, the run ends there, and no step of the
\* run has written or writes the file
C7_ErrorsPropagate ==
    [][/\ ListingFailed' => cpc' = "crashed_listing"
       /\ cpc' = "crashed_listing" => file' = file /\ version' = version
       /\ cpc = "crashed_listing" => file' = file /\ cpc' = "listing"]_vars

\* a run crashed after it had fetched a non-empty page, and the file still
\* holds the records of before the run
C7_Witness ==
    /\ cpc = "crashed_listing"
    /\ orders # <<>>
    /\ Len(requested) = Len(orders) + 1
    /\ file.exists
    /\ file.orders # <<>>
    /\ version = 0

\* the raw_text the claim describes
ExpectedRawText(full, body, abstract) ==
    IF full \notin {Absent, None, ""} THEN full
    ELSE IF body \notin {Absent, None, ""} THEN body
    ELSE IF abstract \notin {Absent, None} THEN abstract
    ELSE ""

\* C8: the raw_text of every record save_orders builds is the full text if
\* non-empty, else the body if non-empty, else the abstract, else "", and is
\* a string, never null
C8_RawTextFallback ==
    \A i \in 1..Len(detailed_orders) :
        LET rec == detailed_orders[i]
        IN /\ rec.raw_text = ExpectedRawText(rec.content.full_text_xml,
                                             rec.content.body_html,
                                             rec.data.abstract)
           /\ rec.raw_text \notin {None, Absent}

\* C9: when a run of save_orders has completed, the file holds exactly one
\* record per item of the listing, in listing order, each with summary null
\* and summarized false, whatever the file held before; a document whose
\* detail request was answered with a status other than 200 is among them
\* with content {}.
C9_ReplaceNotMerge ==
    cpc = "done" =>
        /\ file.exists
        /\ Len(file.orders) = Len(orders)
        /\ \A i \in 1..Len(orders) :
            /\ file.orders[i].data = orders[i]
            /\ file.orders[i].summary = None
            /\ file.orders[i].metadata.summarized = FALSE
            /\ DetailOf(orders[i].document_number).status # 200
                => file.orders[i].content = EmptyObj

\* a completed run over a file that held a summarized record and a record of
\* a document the listing no longer holds, with a listed document whose
\* detail request failed
C9_Witness ==
    /\ cpc = "done"
    /\ prev_file.exists
    /\ \E j \in 1..Len(prev_file.orders) : prev_file.orders[j].summary # None
    /\ \E j \in 1..Len(prev_file.orders) :
        \A i \in 1..Len(orders) :
            orders[i].document_number # prev_file.orders[j].data.document_number
    /\ \E i \in 1..Len(orders) :
        /\ DetailOf(orders[i].document_number).status = 404
        /\ file.orders[i].content = EmptyObj
    /\ Len(orders) >= 2

-----------------------------------------------------------------------------
(* Properties of the server, checked under Spec *)

Done(r) == req[r].pc = "done"

\* the order the request found at line 40, as it was read
FoundOrder(r) == req[r].orders[req[r].pos]

\* the request called the service and answered 200
Succeeded(r) == Done(r) /\ req[r].called /\ req[r].resp.status = 200

\* C1: a request for a document number that no record of the existing file
\* holds is answered 404 "Order not found", without a call of the service
C1_OrderNotFound ==
    \A r \in Requests :
        (Done(r) /\ req[r].found_file
            /\ FirstMatch(req[r].orders, req[r].doc) = 0)
        => /\ req[r].resp.status = 404
           /\ req[r].resp.detail = <<"Order not found">>
           /\ ~req[r].called

\* C2: a request whose record has no summary and an empty or absent
\* raw_text is answered 400 "No raw text available for summarization",
\* without a call of the service
C2_NoRawText ==
    \A r \in Requests :
        (Done(r) /\ req[r].pos # 0
            /\ FoundOrder(r).summary = None
            /\ FoundOrder(r).raw_text \in {"", None, Absent})
        => /\ req[r].resp.status = 400
           /\ req[r].resp.detail = <<"No raw text available for summarization">>
           /\ ~req[r].called

\* C3: a request for a record whose summary is not null is answered with
\* the record as it is, without a call of the service and without a write
\* of the file
C3_Idempotent ==
    \A r \in Requests :
        (Done(r) /\ req[r].pos # 0 /\ FoundOrder(r).summary # None)
        => /\ req[r].resp = OkResponse(FoundOrder(r))
           /\ ~req[r].called
           /\ req[r].writeVersion = 0

\* C4: after the write of a request that succeeds, the file is the file the
\* request read with only summary and metadata.summarized of the first
\* matching record changed, and the response is that record, with a summary
\* that is not null and summarized true
C4_FrameOfSuccess ==
    \A r \in Requests :
        (Succeeded(r) /\ version = req[r].writeVersion) =>
            LET i == FirstMatch(req[r].orders, req[r].doc)
            IN /\ file.exists
               /\ Len(file.orders) = Len(req[r].orders)
               /\ \A j \in 1..Len(file.orders) :
                    j # i => file.orders[j] = req[r].orders[j]
               /\ file.orders[i] =
                    [req[r].orders[i] EXCEPT
                        !.summary = file.orders[i].summary,
                        !.metadata.summarized = file.orders[i].metadata.summarized]
               /\ req[r].resp.body = <<file.orders[i]>>
               /\ file.orders[i].summary # None
               /\ file.orders[i].metadata.summarized = TRUE

\* r1 wrote after r2 had read and before r2 wrote, and r2's write is the
\* last write of the file
Overlapped(r1, r2) ==
    /\ r1 # r2
    /\ Succeeded(r1)
    /\ Succeeded(r2)
    /\ req[r1].doc # req[r2].doc
    /\ req[r2].readVersion < req[r1].writeVersion
    /\ req[r1].writeVersion < req[r2].writeVersion
    /\ version = req[r2].writeVersion

\* C5: when two requests for different records overlap and both succeed,
\* after the later write the file holds the later writer's summary and the
\* earlier writer's record is unsummarized again, although the earlier
\* writer was answered 200 with its summary
C5_LostUpdate ==
    \A r1, r2 \in Requests :
        Overlapped(r1, r2) =>
            LET i1 == FirstMatch(file.orders, req[r1].doc)
                i2 == FirstMatch(file.orders, req[r2].doc)
            IN /\ i1 # 0
               /\ i2 # 0
               /\ file.orders[i1].summary = None
               /\ file.orders[i1].metadata.summarized = FALSE
               /\ req[r1].resp.body[1].metadata.summarized = TRUE
               /\ file.orders[i2] = req[r2].resp.body[1]

\* both requests were answered 200 with a summary text, and the file holds
\* only one of the two summaries
C5_Witness ==
    \E r1, r2 \in Requests :
        /\ Overlapped(r1, r2)
        /\ req[r1].resp.body[1].summary = "summary text"
        /\ req[r2].resp.body[1].summary = "summary text"
        /\ Cardinality({i \in 1..Len(file.orders) :
                            file.orders[i].summary = "summary text"}) = 1

\* C10: in every record of the file, metadata.summarized is true exactly
\* when summary is not null; and a request answered with an error status
\* has not written the file
C10_SummarizedIffSummary ==
    /\ \A i \in 1..Len(file.orders) :
        file.orders[i].metadata.summarized = TRUE <=> file.orders[i].summary # None
    /\ \A r \in Requests :
        (Done(r) /\ req[r].resp.status >= 400) => req[r].writeVersion = 0

====
